---- MODULE Spec2Model ----
(***************************************************************************)
(* Route expansion and map rendering pipeline of the planning map          *)
(* (components/admin/PlanningMap.tsx; the user route map is the same code  *)
(* with other names).  The component holds four pieces of React state      *)
(* (stations, polylines, loading, error), a ref to the current             *)
(* AbortController, and one asynchronous buildRoutes() call per effect     *)
(* run with a non-null input.  A buildRoutes() call suspends at the        *)
(* directory fetch and at each expandRoute call; every continuation runs   *)
(* to the next await (or to the end) without interleaving, as on the       *)
(* single-threaded event loop.                                             *)
(*                                                                         *)
(* fetch() is given controller.signal: once the controller is aborted a    *)
(* pending fetch (or body read) of that cycle rejects with an AbortError,  *)
(* and a fetch started on an aborted signal rejects at once.  A request    *)
(* of a live controller resolves or rejects as the service decides.        *)
(***************************************************************************)
EXTENDS Integers, Sequences, FiniteSets, TLC

(* Number of effect runs (mount + input changes) explored. *)
MaxTriggers == 2

VARIABLES
    planning,   \* the prop: UNMOUNTED before the first effect run, NULL, or an index into Plannings
    stations,   \* useState<Station[]>
    polylines,  \* useState<PolylineData[]>
    loading,    \* useState<boolean>
    error,      \* useState<string | null>: <<>> is null, <<s>> is the string s
    abortRef,   \* useRef<AbortController | null>: NULL or the index of a cycle
    cycles,     \* one record per buildRoutes() call: its controller, position and locals
    triggers,   \* number of effect runs so far
    lastStep,   \* history: who took the last step, the setters it called, the requests it issued
    mapView     \* what the Leaflet map shows: NoMap, its initial view, or the bounds it was fitted to

vars == <<planning, stations, polylines, loading, error, abortRef, cycles, triggers, lastStep, mapView>>

renderState == <<stations, polylines, loading, error>>

NULL == 0
UNMOUNTED == 0 - 1

(***************************************************************************)
(* Data                                                                    *)
(***************************************************************************)
MAP_COLORS == <<"#34d399", "#22d3ee", "#fbbf24", "#a78bfa", "#f472b6", "#fb7185">>

Station(id, lat, lon, active) == [id |-> id, lat |-> lat, lon |-> lon, is_active |-> active]

Vehicle(vehicle_id, stops) == [vehicle_id |-> vehicle_id, stops |-> stops]

(* Directory responses of GET /stations.  DirB starts with a station       *)
(* without coordinates and an inactive one, and its stations 1 and 2 share *)
(* their coordinates.  The directory may also be empty.                    *)
DirA == <<Station(1, 10, 10, TRUE), Station(2, 20, 10, TRUE), Station(3, 20, 20, TRUE)>>
DirB == <<Station(4, 0, 0, TRUE), Station(3, 30, 30, FALSE),
          Station(1, 10, 10, TRUE), Station(2, 10, 10, TRUE)>>
Directories == {DirA, DirB, <<>>}

(* Values of expanded_station_ids in bodies of POST /graph/expand-route; 9 *)
(* is an id no directory knows.                                            *)
ExpandedPaths == {<<1, 2>>, <<1, 3, 2>>, <<2, 9, 1, 3>>}

(* The 2xx bodies: <<ids>> carries expanded_station_ids, <<>> is an object *)
(* without that field.                                                     *)
Payloads == {<<>>} \cup {<<expandedIds>> : expandedIds \in ExpandedPaths}

(* The planning results given as input: vehicles with their stop ids.  The *)
(* second has seven vehicles without stops before its only route, which    *)
(* has no vehicle_id and sits past the end of the palette.                 *)
Plannings == <<
    <<Vehicle("V1", <<1, 2>>), Vehicle("V2", <<2, 3>>)>>,
    <<Vehicle("V1", <<>>), Vehicle("V2", <<>>), Vehicle("V3", <<>>), Vehicle("V4", <<>>),
      Vehicle("V5", <<>>), Vehicle("V6", <<>>), Vehicle("V7", <<>>), Vehicle("", <<1, 3>>)>>
>>

Inputs == {NULL} \cup DOMAIN Plannings

(***************************************************************************)
(* Pure helpers of buildRoutes                                             *)
(***************************************************************************)
Max(S) == CHOOSE x \in S : \A y \in S : y <= x

(* stationMap.get(sid) on the Map filled by stationList.forEach: the last  *)
(* entry with that id wins; <<>> is undefined.                             *)
StationMapGet(stationList, sid) ==
    LET hits == {i \in DOMAIN stationList : stationList[i].id = sid}
    IN  IF hits = {} THEN <<>> ELSE <<stationList[Max(hits)]>>

(* The duplicate test of the points loop. *)
IsNewPointAlways(points, coord) == TRUE

IsNewPoint(points, coord) ==
    \/ points = <<>>
    \/ points[Len(points)][1] # coord[1]
    \/ points[Len(points)][2] # coord[2]

RECURSIVE PointsLoop(_, _, _, _)
PointsLoop(expandedIds, stationList, i, points) ==
    IF i > Len(expandedIds) THEN points
    ELSE LET st == StationMapGet(stationList, expandedIds[i])
         IN  IF st = <<>>
             THEN PointsLoop(expandedIds, stationList, i + 1, points)
             ELSE LET coord == <<st[1].lat, st[1].lon>>
                  IN  IF IsNewPoint(points, coord)
                      THEN PointsLoop(expandedIds, stationList, i + 1, Append(points, coord))
                      ELSE PointsLoop(expandedIds, stationList, i + 1, points)

RECURSIVE PointsLoopStopAtUnknown(_, _, _, _)
PointsLoopStopAtUnknown(expandedIds, stationList, i, points) ==
    IF i > Len(expandedIds) THEN points
    ELSE LET st == StationMapGet(stationList, expandedIds[i])
         IN  IF st = <<>>
             THEN points
             ELSE LET coord == <<st[1].lat, st[1].lon>>
                  IN  IF IsNewPoint(points, coord)
                      THEN PointsLoopStopAtUnknown(expandedIds, stationList, i + 1, Append(points, coord))
                      ELSE PointsLoopStopAtUnknown(expandedIds, stationList, i + 1, points)

BuildPointsStopAtUnknown(expandedIds, stationList) ==
    PointsLoopStopAtUnknown(expandedIds, stationList, 1, <<>>)

BuildPointsSorted(expandedIds, stationList) ==
    PointsLoop(SortSeq(expandedIds, LAMBDA a, b : a < b), stationList, 1, <<>>)

BuildPoints(expandedIds, stationList) == PointsLoop(expandedIds, stationList, 1, <<>>)

(* vehicle.vehicle_id || `vehicle-${vIdx + 1}` (vIdx counts from 0). *)
PolylineId(vehicle, vIdx) ==
    IF vehicle.vehicle_id # "" THEN vehicle.vehicle_id ELSE "vehicle-" \o ToString(vIdx + 1)

PolylineColorOffByOne(vIdx) == MAP_COLORS[((vIdx + 1) % Len(MAP_COLORS)) + 1]

PolylineColor(vIdx) == MAP_COLORS[(vIdx % Len(MAP_COLORS)) + 1]

(* if (points.length > 1) routes.push({id, color, points}) *)
PushRouteFront(routes, vehicle, vIdx, points) ==
    IF Len(points) > 1
    THEN <<[id |-> PolylineId(vehicle, vIdx), color |-> PolylineColor(vIdx), points |-> points]>> \o routes
    ELSE routes

PushRouteAlways(routes, vehicle, vIdx, points) ==
    Append(routes, [id |-> PolylineId(vehicle, vIdx), color |-> PolylineColor(vIdx), points |-> points])

PushRoute(routes, vehicle, vIdx, points) ==
    IF Len(points) > 1
    THEN Append(routes, [id |-> PolylineId(vehicle, vIdx), color |-> PolylineColor(vIdx), points |-> points])
    ELSE routes

(* vehicle.vehicle_id || `Arac ${vIdx + 1}`, then `${vehicleName}: Rota hesaplanamadi` *)
RouteError(vehicle, vIdx) ==
    (IF vehicle.vehicle_id # "" THEN vehicle.vehicle_id ELSE "Arac " \o ToString(vIdx + 1))
        \o ": Rota hesaplanamadi"

RECURSIVE Join(_, _)
Join(strs, sep) ==
    IF strs = <<>> THEN ""
    ELSE IF Len(strs) = 1 THEN strs[1]
    ELSE strs[1] \o sep \o Join(Tail(strs), sep)

WarningText == "Bu rota icin bazi istasyonlar arasinda yol bulunamadi. Lutfen km baglantilarini kontrol edin."

(* The message of the outer catch. *)
FatalMessage == WarningText

(* The message set after the loop when hasError && routeErrors.length > 0. *)
PartialMessage(routeErrors) == WarningText \o " (" \o Join(routeErrors, ", ") \o ")"

(* The for loop's header and `if (!stops.length) continue`: the first      *)
(* index >= from (counted from 0) of a vehicle with stops, or the number   *)
(* of vehicles when the loop runs out.                                     *)
NextVehicleBreaks(vehicles, from) ==
    IF from < Len(vehicles) /\ Len(vehicles[from + 1].stops) > 0 THEN from ELSE Len(vehicles)

NextVehicle(vehicles, from) ==
    LET rest == {j \in from .. (Len(vehicles) - 1) : Len(vehicles[j + 1].stops) > 0}
    IN  IF rest = {} THEN Len(vehicles) ELSE CHOOSE j \in rest : \A k \in rest : j <= k

(* return payload.expanded_station_ids || [] *)
ExpandRouteReturnsStops(payload, stationIds) == IF payload = <<>> THEN stationIds ELSE payload[1]

ExpandRouteReturns(payload, stationIds) == IF payload = <<>> THEN <<>> ELSE payload[1]

(* stops.map((s) => s.station_id): the model's stops are their ids. *)
StationIds(vehicle) == vehicle.stops

(***************************************************************************)
(* Viewport                                                                *)
(***************************************************************************)
DEFAULT_CENTER == <<39, 35>>
ZOOM == 6

Min(S) == CHOOSE x \in S : \A y \in S : x <= y

(* null for bounds; the placeholder rendered instead of the MapContainer. *)
NoBounds == <<>>
NoMap == <<"none">>

(* L.latLngBounds(points): south-west and north-east corners. *)
LatLngBounds(points) ==
    <<<<Min({pt[1] : pt \in points}), Min({pt[2] : pt \in points})>>,
      <<Max({pt[1] : pt \in points}), Max({pt[2] : pt \in points})>>>>

(* bounds.getCenter(); the coordinates of the data have even sums. *)
GetCenter(bounds) ==
    <<(bounds[1][1] + bounds[2][1]) \div 2, (bounds[1][2] + bounds[2][2]) \div 2>>

AllPoints(pls) == UNION {{pls[k].points[n] : n \in DOMAIN pls[k].points} : k \in DOMAIN pls}

(* stations.find((s) => s.lat && s.lon): <<>> when there is none. *)
FirstActive(sts) ==
    LET found == {i \in DOMAIN sts : sts[i].lat # 0 /\ sts[i].lon # 0}
    IN  IF found = {} THEN <<>> ELSE <<sts[Min(found)]>>

(* The bounds memo. *)
Bounds(pls, sts) ==
    IF AllPoints(pls) = {}
    THEN LET firstActive == FirstActive(sts)
         IN  IF firstActive # <<>>
             THEN LatLngBounds({<<firstActive[1].lat, firstActive[1].lon>>})
             ELSE NoBounds
    ELSE LatLngBounds(AllPoints(pls))

(* const center = bounds ? bounds.getCenter() : DEFAULT_CENTER *)
CenterOfOrigin(bounds) == IF bounds # NoBounds THEN GetCenter(bounds) ELSE <<0, 0>>

Center(bounds) == IF bounds # NoBounds THEN GetCenter(bounds) ELSE DEFAULT_CENTER

(* The FitBounds component: its effect fits the map when bounds is set;    *)
(* with bounds null it is not rendered and the map keeps its view.         *)
FitBounds(view, bounds) == IF bounds # NoBounds THEN <<"fit", bounds>> ELSE view

(* One render with input p: the placeholder without a planning result,     *)
(* else the MapContainer, created with center and zoom when it was not     *)
(* there, and the FitBounds child.  The key of the MapContainer            *)
(* (planning.date) is taken as unchanged between planning results.         *)
MapContainer(view, p, pls, sts) ==
    IF p \notin DOMAIN Plannings THEN NoMap
    ELSE LET bounds == Bounds(pls, sts)
             mounted == IF view = NoMap THEN <<"view", Center(bounds), ZOOM>> ELSE view
         IN  FitBounds(mounted, bounds)

(***************************************************************************)
(* Render cycles                                                           *)
(***************************************************************************)
(* A buildRoutes() call right after its synchronous start: controller not  *)
(* aborted, suspended at `await fetchStations()`.  reqs, dir, outcomes,    *)
(* stationsAtStart and overtook are history: the requests issued, the      *)
(* directory response, the expansion responses in arrival order, the       *)
(* stations state when the call started, and whether the call replaced a   *)
(* call that was still in flight.  promise is the state of the promise     *)
(* buildRoutes() returned.                                                 *)
NewCycle(p, stationsNow, overtook) ==
    [planning |-> p, aborted |-> FALSE, pc |-> "fetchStations", vIdx |-> 0,
     stationList |-> <<>>, hasError |-> FALSE, routes |-> <<>>, routeErrors |-> <<>>,
     reqs |-> <<"GET /stations">>, dir |-> "pending", outcomes |-> <<>>,
     stationsAtStart |-> stationsNow, overtook |-> overtook, promise |-> "pending"]

(* A finished call whose controller is aborted: nothing can read its       *)
(* locals any more, so they (and its history) are dropped.                 *)
Retired(cyc) ==
    [planning |-> NULL, aborted |-> cyc.aborted, pc |-> "done", vIdx |-> 0,
     stationList |-> <<>>, hasError |-> FALSE, routes |-> <<>>, routeErrors |-> <<>>,
     reqs |-> <<>>, dir |-> "retired", outcomes |-> <<>>,
     stationsAtStart |-> <<>>, overtook |-> FALSE, promise |-> cyc.promise]

(* buildRoutes() returns: its promise is fulfilled unless an exception     *)
(* left the function.                                                      *)
Finished(cyc) ==
    LET returned == [cyc EXCEPT !.pc = "done",
                                !.promise = IF @ = "pending" THEN "fulfilled" ELSE @]
    IN  IF cyc.aborted THEN Retired(returned) ELSE returned

RetireFinished(cs) ==
    [c \in DOMAIN cs |-> IF cs[c].pc = "done" /\ cs[c].aborted THEN Retired(cs[c]) ELSE cs[c]]

InFlight(cyc) == cyc.pc # "done"
Live(cyc) == InFlight(cyc) /\ ~cyc.aborted

(* controller.abort() *)
Abort(cs, c) == [cs EXCEPT ![c].aborted = TRUE]

(* The cleanup returned by the previous effect run: only a run with a      *)
(* non-null input returns one, and its controller is abortRef.current.     *)
NoCleanup(cs, prevPlanning, ref) == cs

Cleanup(cs, prevPlanning, ref) ==
    IF prevPlanning \in DOMAIN Plannings /\ ref # NULL THEN Abort(cs, ref) ELSE cs

(* if (abortRef.current) abortRef.current.abort() *)
AbortPrevious(cs, ref) == IF ref # NULL THEN Abort(cs, ref) ELSE cs

(* What a failed await throws: the AbortError of an aborted signal, or the *)
(* Error of a failed request (new Error(...), TypeError, SyntaxError).     *)
Thrown(aborted) == IF aborted THEN "AbortError" ELSE "Error"

(* `catch {` has no binding and no filter: every exception is caught. *)
InnerCatchCatches(exc) == TRUE

OuterCatchCatchesOnlyAbort(exc) == exc = "AbortError"

OuterCatchCatches(exc) == TRUE

(* `continue` of the per-vehicle catch, then vIdx++ of the loop header. *)
RetryAfterFailure(vIdx) == vIdx

AfterFailure(vIdx) == vIdx + 1

(* `if (controller.signal.aborted) return` of the per-vehicle catch. *)
InnerCatchNeverReturns(aborted) == FALSE

InnerCatchReturns(aborted) == aborted

(* `if (controller.signal.aborted) return` of the outer catch. *)
OuterCatchNeverReturns(aborted) == FALSE

OuterCatchAlwaysReturns(aborted) == TRUE

OuterCatchReturns(aborted) == aborted

(* finally { if (!controller.signal.aborted) setLoading(false) } *)
FinallyNeverSetsLoading(aborted) == FALSE

FinallySetsLoading(aborted) == ~aborted

Init ==
    /\ planning = UNMOUNTED
    /\ stations = <<>>
    /\ polylines = <<>>
    /\ loading = FALSE
    /\ error = <<>>
    /\ abortRef = NULL
    /\ cycles = <<>>
    /\ triggers = 0
    /\ lastStep = [by |-> NULL, setters |-> {}, requests |-> <<>>]
    /\ mapView = NoMap

(* if (!planning) { setStations([]); setPolylines([]); setError(null); return; } *)
NullBranchKeepsStations == [stations |-> stations, polylines |-> <<>>, error |-> <<>>]

NullBranchKeepsPolylines == [stations |-> <<>>, polylines |-> polylines, error |-> <<>>]

NullBranch == [stations |-> <<>>, polylines |-> <<>>, error |-> <<>>]

(* The effect runs with planning = null (on mount or after a change to     *)
(* null): the previous run's cleanup, then the null branch.                *)
TriggerNull ==
    /\ triggers < MaxTriggers
    /\ planning # NULL
    /\ planning' = NULL
    /\ triggers' = triggers + 1
    /\ cycles' = RetireFinished(Cleanup(cycles, planning, abortRef))
    /\ stations' = NullBranch.stations
    /\ polylines' = NullBranch.polylines
    /\ error' = NullBranch.error
    /\ UNCHANGED <<loading, abortRef>>
    /\ lastStep' = [by |-> NULL, setters |-> {"setStations", "setPolylines", "setError"},
                    requests |-> <<>>]
    /\ mapView' = MapContainer(mapView, NULL, polylines', stations')

(* The synchronous start of buildRoutes(): setLoading(true); setError(null); *)
(* setPolylines([]).                                                       *)
BuildRoutesStartKeepsError == [loading |-> TRUE, error |-> error, polylines |-> <<>>]

BuildRoutesStartKeepsPolylines == [loading |-> TRUE, error |-> <<>>, polylines |-> polylines]

BuildRoutesStart == [loading |-> TRUE, error |-> <<>>, polylines |-> <<>>]

(* The effect runs with a planning result (a new object each time, so the  *)
(* same content may come again): cleanup, abort of abortRef.current, a new *)
(* controller, and buildRoutes() up to its first await.  The component     *)
(* renders with the new input before the effect runs and again after the   *)
(* setters of buildRoutes().                                               *)
TriggerPlanning(p) ==
    /\ triggers < MaxTriggers
    /\ planning' = p
    /\ triggers' = triggers + 1
    /\ LET overtook == abortRef # NULL /\ Live(cycles[abortRef])
           aborted == AbortPrevious(Cleanup(cycles, planning, abortRef), abortRef)
       IN  cycles' = Append(RetireFinished(aborted), NewCycle(p, stations, overtook))
    /\ abortRef' = Len(cycles) + 1
    /\ loading' = BuildRoutesStart.loading
    /\ error' = BuildRoutesStart.error
    /\ polylines' = BuildRoutesStart.polylines
    /\ UNCHANGED stations
    /\ lastStep' = [by |-> Len(cycles) + 1, setters |-> {"setLoading", "setError", "setPolylines"},
                    requests |-> <<"GET /stations">>]
    /\ mapView' = MapContainer(MapContainer(mapView, p, polylines, stations), p, polylines', stations')

(* try { ... } finally: the end of buildRoutes() on every path. *)
Finally(c, cyc, setters) ==
    /\ loading' = IF FinallySetsLoading(cyc.aborted) THEN FALSE ELSE loading
    /\ cycles' = [cycles EXCEPT ![c] = Finished(cyc)]
    /\ lastStep' = [by |-> c,
                    setters |-> setters \cup (IF FinallySetsLoading(cyc.aborted) THEN {"setLoading"} ELSE {}),
                    requests |-> <<>>]

(* if (hasError && routeErrors.length > 0) *)
HasWarningNever(hasError, routeErrors) == FALSE

HasWarning(hasError, routeErrors) == hasError /\ Len(routeErrors) > 0

(* After the loop: setStations, setPolylines, setError if a route failed.  *)
Commit(c, cyc) ==
    LET warn == HasWarning(cyc.hasError, cyc.routeErrors)
    IN  /\ stations' = cyc.stationList
        /\ polylines' = cyc.routes
        /\ error' = IF warn THEN <<PartialMessage(cyc.routeErrors)>> ELSE error
        /\ Finally(c, cyc, {"setStations", "setPolylines"} \cup (IF warn THEN {"setError"} ELSE {}))

(* The requests one loop iteration issues: expandRoute's single fetch. *)
RouteRequestsWithRefetch == <<"GET /stations", "POST /graph/expand-route">>

RouteRequestsTwice == <<"POST /graph/expand-route", "POST /graph/expand-route">>

RouteRequests == <<"POST /graph/expand-route">>

(* The for loop from index `from` to its next await or to its end. *)
RunLoop(c, cyc, from) ==
    LET vehicles == Plannings[cyc.planning]
        j == NextVehicle(vehicles, from)
    IN  IF j < Len(vehicles)
        THEN /\ cycles' = [cycles EXCEPT ![c] =
                    [cyc EXCEPT !.pc = "expandRoute", !.vIdx = j,
                                !.reqs = @ \o RouteRequests]]
             /\ lastStep' = [by |-> c, setters |-> {}, requests |-> RouteRequests]
             /\ UNCHANGED renderState
        ELSE Commit(c, cyc)

(* GET /stations answers 2xx with a station list. *)
FetchStationsResolve(c, stationList) ==
    /\ cycles[c].pc = "fetchStations"
    /\ ~cycles[c].aborted
    /\ RunLoop(c, [cycles[c] EXCEPT !.stationList = stationList, !.dir = "ok"], 0)
    /\ UNCHANGED <<planning, abortRef, triggers>>
    /\ mapView' = MapContainer(mapView, planning, polylines', stations')

(* An exception reaches the outer try: the outer catch, then finally.  An  *)
(* exception the catch did not take would leave buildRoutes().             *)
OuterCatch(c, cyc, exc) ==
    IF ~OuterCatchCatches(exc)
    THEN /\ UNCHANGED <<stations, polylines, error>>
         /\ Finally(c, [cyc EXCEPT !.promise = "rejected"], {})
    ELSE IF OuterCatchReturns(cyc.aborted)
    THEN /\ UNCHANGED <<stations, polylines, error>>
         /\ Finally(c, cyc, {})
    ELSE /\ error' = <<FatalMessage>>
         /\ UNCHANGED <<stations, polylines>>
         /\ Finally(c, cyc, {"setError"})

(* fetchStations() throws: non-2xx, network error, unreadable body, or the *)
(* AbortError of an aborted controller.                                    *)
FetchStationsReject(c) ==
    /\ cycles[c].pc = "fetchStations"
    /\ LET cyc == [cycles[c] EXCEPT !.dir = IF @ = "pending" /\ cycles[c].aborted THEN "aborted" ELSE "failed"]
       IN  OuterCatch(c, cyc, Thrown(cyc.aborted))
    /\ UNCHANGED <<planning, abortRef, triggers>>
    /\ mapView' = MapContainer(mapView, planning, polylines', stations')

(* POST /graph/expand-route answers 2xx with a JSON object. *)
ExpandRouteResolve(c, payload) ==
    /\ cycles[c].pc = "expandRoute"
    /\ ~cycles[c].aborted
    /\ LET cyc == cycles[c]
           vehicle == Plannings[cyc.planning][cyc.vIdx + 1]
           expandedIds == ExpandRouteReturns(payload, StationIds(vehicle))
           points == BuildPoints(expandedIds, cyc.stationList)
       IN  RunLoop(c, [cyc EXCEPT !.routes = PushRoute(@, vehicle, cyc.vIdx, points),
                                  !.outcomes = Append(@, [vIdx |-> cyc.vIdx, ok |-> TRUE, ids |-> expandedIds,
                                                          missing |-> payload = <<>>])],
                   cyc.vIdx + 1)
    /\ UNCHANGED <<planning, abortRef, triggers>>
    /\ mapView' = MapContainer(mapView, planning, polylines', stations')

(* The per-vehicle catch body after its abort test. *)
OnExpandFailureDropRoutes(cyc, vehicle) ==
    [cyc EXCEPT !.hasError = TRUE,
                !.routes = <<>>,
                !.routeErrors = Append(@, RouteError(vehicle, cyc.vIdx)),
                !.outcomes = Append(@, [vIdx |-> cyc.vIdx, ok |-> FALSE, ids |-> <<>>, missing |-> FALSE])]

OnExpandFailurePrepend(cyc, vehicle) ==
    [cyc EXCEPT !.hasError = TRUE,
                !.routeErrors = <<RouteError(vehicle, cyc.vIdx)>> \o @,
                !.outcomes = Append(@, [vIdx |-> cyc.vIdx, ok |-> FALSE, ids |-> <<>>, missing |-> FALSE])]

OnExpandFailure(cyc, vehicle) ==
    [cyc EXCEPT !.hasError = TRUE,
                !.routeErrors = Append(@, RouteError(vehicle, cyc.vIdx)),
                !.outcomes = Append(@, [vIdx |-> cyc.vIdx, ok |-> FALSE, ids |-> <<>>, missing |-> FALSE])]

(* expandRoute() throws (non-2xx, network error, bad body, AbortError):    *)
(* the per-vehicle catch.                                                  *)
ExpandRouteReject(c) ==
    /\ cycles[c].pc = "expandRoute"
    /\ LET cyc == cycles[c]
           vehicle == Plannings[cyc.planning][cyc.vIdx + 1]
       IN  IF ~InnerCatchCatches(Thrown(cyc.aborted))
           THEN OuterCatch(c, cyc, Thrown(cyc.aborted))
           ELSE IF InnerCatchReturns(cyc.aborted)
           THEN /\ UNCHANGED <<stations, polylines, error>>
                /\ Finally(c, cyc, {})
           ELSE RunLoop(c, OnExpandFailure(cyc, vehicle), AfterFailure(cyc.vIdx))
    /\ UNCHANGED <<planning, abortRef, triggers>>
    /\ mapView' = MapContainer(mapView, planning, polylines', stations')

Next ==
    \/ TriggerNull
    \/ \E p \in DOMAIN Plannings : TriggerPlanning(p)
    \/ \E c \in DOMAIN cycles : \E stationList \in Directories : FetchStationsResolve(c, stationList)
    \/ \E c \in DOMAIN cycles : FetchStationsReject(c)
    \/ \E c \in DOMAIN cycles : \E payload \in Payloads : ExpandRouteResolve(c, payload)
    \/ \E c \in DOMAIN cycles : ExpandRouteReject(c)

Spec == Init /\ [][Next]_vars

(* The continuation of cycle c at its pending await. *)
CycleStep(c) ==
    /\ c \in DOMAIN cycles
    /\ \/ \E stationList \in Directories : FetchStationsResolve(c, stationList)
       \/ FetchStationsReject(c)
       \/ \E payload \in Payloads : ExpandRouteResolve(c, payload)
       \/ ExpandRouteReject(c)

(* Every service call eventually resolves or errors, and the event loop    *)
(* then runs the continuation that awaits it.                              *)
FairSpec == Spec /\ \A c \in 1 .. MaxTriggers : WF_vars(CycleStep(c))

(***************************************************************************)
(* Properties                                                              *)
(***************************************************************************)
Quiescent == \A c \in DOMAIN cycles : ~InFlight(cycles[c])

(* The cycle of the current input has settled and nothing has replaced it. *)
CurrentSettled == abortRef # NULL /\ cycles[abortRef].pc = "done" /\ ~cycles[abortRef].aborted

Current == cycles[abortRef]

VehiclesOf(cyc) == Plannings[cyc.planning]

PointsOf(cyc, o) == BuildPoints(o.ids, cyc.stationList)

Drawn(cyc, o) == o.ok /\ Len(PointsOf(cyc, o)) >= 2

FailedOutcomes(cyc) == SelectSeq(cyc.outcomes, LAMBDA o : ~o.ok)

(* What one cycle yields from its input and its responses alone, started   *)
(* from a state whose station list is cyc.stationsAtStart.                 *)
PolylinesAlone(cyc) ==
    LET drawn == SelectSeq(cyc.outcomes, LAMBDA o : Drawn(cyc, o))
    IN  [k \in 1 .. Len(drawn) |->
            [id |-> PolylineId(VehiclesOf(cyc)[drawn[k].vIdx + 1], drawn[k].vIdx),
             color |-> PolylineColor(drawn[k].vIdx),
             points |-> PointsOf(cyc, drawn[k])]]

WarningAlone(cyc) ==
    LET failed == FailedOutcomes(cyc)
    IN  IF failed = <<>> THEN <<>>
        ELSE <<PartialMessage([k \in 1 .. Len(failed) |->
                    RouteError(VehiclesOf(cyc)[failed[k].vIdx + 1], failed[k].vIdx)])>>

RenderAlone(cyc) ==
    IF cyc.dir = "failed"
    THEN <<cyc.stationsAtStart, <<>>, FALSE, <<FatalMessage>>>>
    ELSE <<cyc.stationList, PolylinesAlone(cyc), FALSE, WarningAlone(cyc)>>

(* C1: when cycle 2 was triggered while cycle 1 was in flight and every    *)
(* call of both has resolved, errored or been cancelled, the render state  *)
(* is the one cycle 2 produces alone.                                      *)
C1_FinalStateIsSupersedingCycles ==
    (CurrentSettled /\ Quiescent /\ Current.overtook) => renderState = RenderAlone(Current)

(* The late arrival: the superseded cycle's call came back after the       *)
(* superseding cycle had settled with polylines.                           *)
C1_Witness ==
    /\ CurrentSettled /\ Quiescent /\ Current.overtook
    /\ lastStep.by # NULL /\ lastStep.by < abortRef
    /\ polylines # <<>> /\ error # <<>>

(* C2: a step of a cycle whose controller is already aborted calls no      *)
(* setter and leaves the render state as it was.                           *)
C2_SupersededCycleWritesNothing ==
    [][\A c \in DOMAIN cycles :
          (cycles[c].aborted /\ lastStep'.by = c)
              => (lastStep'.setters = {} /\ UNCHANGED renderState)]_vars

(* A superseded cycle's expansion came back while the newer cycle was      *)
(* still loading.                                                          *)
C2_Witness ==
    /\ lastStep.by # NULL /\ lastStep.by < abortRef
    /\ cycles[lastStep.by].aborted
    /\ loading /\ Live(Current) /\ Current.pc = "expandRoute"

(* C3: loading is true only while a started, not superseded cycle has not  *)
(* settled.                                                                *)
C3_LoadingOnlyWhileLive == loading => \E c \in DOMAIN cycles : Live(cycles[c])

(* C4: an effect run with null input empties locations and polylines,      *)
(* nulls the warning, and issues no request.                               *)
C4_NullTriggerClearsWithoutRequests ==
    [][(triggers' # triggers /\ planning' = NULL)
          => /\ stations' = <<>> /\ polylines' = <<>> /\ error' = <<>>
             /\ lastStep'.requests = <<>>
             /\ Len(cycles') = Len(cycles)
             /\ \A c \in DOMAIN cycles : cycles'[c].pc = cycles[c].pc]_vars

(* A null input arrived after a cycle had filled the station list.         *)
C4_Witness ==
    /\ planning = NULL /\ lastStep.by = NULL /\ lastStep.setters # {}
    /\ \E c \in DOMAIN cycles : cycles[c].dir = "retired"
    /\ stations = <<>> /\ polylines = <<>> /\ error = <<>>

(* C5: only the cycle of the current input can have a request outstanding  *)
(* on a signal that is not aborted.                                        *)
C5_OnlyCurrentCycleLive ==
    \A c \in DOMAIN cycles :
        Live(cycles[c]) => (c = Len(cycles) /\ c = abortRef /\ planning = cycles[c].planning)

(* A null input cancelled an outstanding route expansion. *)
C5_Witness ==
    /\ planning = NULL
    /\ \E c \in DOMAIN cycles :
          InFlight(cycles[c]) /\ cycles[c].aborted /\ cycles[c].pc = "expandRoute"

(* C6: in a settled cycle every route whose own expansion succeeded with   *)
(* at least 2 points has its polyline, whatever happened to other routes.  *)
C6_FailureIsolatedPerRoute ==
    CurrentSettled =>
        \A i \in DOMAIN Current.outcomes :
            LET o == Current.outcomes[i]
            IN  Drawn(Current, o) =>
                    \E k \in DOMAIN polylines :
                        /\ polylines[k].id = PolylineId(VehiclesOf(Current)[o.vIdx + 1], o.vIdx)
                        /\ polylines[k].points = PointsOf(Current, o)

(* The first route expanded, the second failed. *)
C6_Witness ==
    /\ CurrentSettled
    /\ Len(Current.outcomes) = 2
    /\ Drawn(Current, Current.outcomes[1]) /\ ~Current.outcomes[2].ok
    /\ Len(polylines) = 1

(* C7: a cycle whose directory fetch failed settles with no polylines, a   *)
(* warning, loading false, and no expansion request issued.                *)
C7_DirectoryFailureIsFatal ==
    (CurrentSettled /\ Current.dir = "failed") =>
        /\ polylines = <<>>
        /\ error # <<>>
        /\ ~loading
        /\ Current.reqs = <<"GET /stations">>

C7_Witness == CurrentSettled /\ Current.dir = "failed" /\ Len(VehiclesOf(Current)) > 1

(* C8: after a cycle ends with the directory unavailable the map has no    *)
(* polylines and no locations.                                             *)
C8_DirectoryFailureBlanksMap ==
    (CurrentSettled /\ Current.dir = "failed") => (polylines = <<>> /\ stations = <<>>)

(* C9 as stated: in a settled state the warning is non-null exactly when a *)
(* route's expansion failed.                                               *)
C9_WarningIffRouteFailed ==
    CurrentSettled => (error # <<>> <=> FailedOutcomes(Current) # <<>>)

(* C9 amended: in a settled state the warning is non-null exactly when the *)
(* directory fetch failed or a route's expansion failed.                   *)
C9_WarningIffDirectoryOrRouteFailed ==
    CurrentSettled =>
        (error # <<>> <=> (Current.dir = "failed" \/ FailedOutcomes(Current) # <<>>))

(* A partial failure: one route drawn, one failed. *)
C9_Witness ==
    /\ CurrentSettled /\ Current.dir = "ok"
    /\ FailedOutcomes(Current) # <<>> /\ error # <<>> /\ polylines # <<>>

(* C10: the settled polylines are, in input order, one entry for each of   *)
(* some routes whose expansion gave at least 2 points.                     *)
C10_PolylinesInInputOrder ==
    CurrentSettled =>
        \E f \in [DOMAIN polylines -> 0 .. (Len(VehiclesOf(Current)) - 1)] :
            /\ \A k, l \in DOMAIN polylines : k < l => f[k] < f[l]
            /\ \A k \in DOMAIN polylines :
                  \E i \in DOMAIN Current.outcomes :
                      LET o == Current.outcomes[i]
                      IN  /\ o.vIdx = f[k]
                          /\ Drawn(Current, o)
                          /\ polylines[k].id = PolylineId(VehiclesOf(Current)[f[k] + 1], f[k])
                          /\ polylines[k].points = PointsOf(Current, o)

(* Both routes of the input drawn, with different point sequences. *)
C10_Witness ==
    /\ CurrentSettled
    /\ Len(polylines) = 2
    /\ polylines[1].points # polylines[2].points

(* The positions (from 0) of the input routes a polyline id names. *)
RoutesNamed(cyc, id) ==
    {j \in 0 .. (Len(VehiclesOf(cyc)) - 1) : PolylineId(VehiclesOf(cyc)[j + 1], j) = id}

(* How many routes before position j had their expansion attempted. *)
AttemptedBefore(cyc, j) ==
    Cardinality({k \in 0 .. (j - 1) : Len(VehiclesOf(cyc)[k + 1].stops) > 0})

(* C11 as stated: a polyline's color is palette[i mod length] with i the   *)
(* route's position among the routes whose expansion was attempted.        *)
C11_ColorByAttemptedPosition ==
    CurrentSettled =>
        \A k \in DOMAIN polylines : \A j \in RoutesNamed(Current, polylines[k].id) :
            polylines[k].color = MAP_COLORS[(AttemptedBefore(Current, j) % Len(MAP_COLORS)) + 1]

(* C11 amended: a polyline's color is palette[i mod length] with i the     *)
(* route's position among all input routes, skipped ones included.         *)
C11_ColorByInputPosition ==
    CurrentSettled =>
        \A k \in DOMAIN polylines :
            /\ RoutesNamed(Current, polylines[k].id) # {}
            /\ \A j \in RoutesNamed(Current, polylines[k].id) :
                  polylines[k].color = MAP_COLORS[(j % Len(MAP_COLORS)) + 1]

(* The eighth route is drawn, after seven skipped ones, in the second      *)
(* palette color.                                                          *)
C11_Witness ==
    /\ CurrentSettled
    /\ Len(VehiclesOf(Current)) > Len(MAP_COLORS)
    /\ \E k \in DOMAIN polylines :
          polylines[k].id = "vehicle-8" /\ polylines[k].color = MAP_COLORS[2]

(* C12: the polylines and the warning of a settled cycle are determined by *)
(* its input and its responses alone, so a second run with the same input  *)
(* and responses gives the same ids, colors, points and warning whatever   *)
(* state the earlier cycles left.                                          *)
C12_ResultDependsOnInputAndResponsesOnly ==
    CurrentSettled =>
        /\ polylines = PolylinesAlone(Current)
        /\ error = IF Current.dir = "failed" THEN <<FatalMessage>> ELSE WarningAlone(Current)

(* A cycle settled with polylines and a warning after an earlier cycle had *)
(* left another station list behind.                                       *)
C12_Witness ==
    /\ CurrentSettled
    /\ Current.stationsAtStart # <<>>
    /\ Current.stationsAtStart # Current.stationList
    /\ polylines # <<>> /\ error # <<>>

(* C13: a route whose expansion succeeded with fewer than 2 points has no  *)
(* polyline and no entry among the route errors, and with no failed route  *)
(* the warning is null.                                                    *)
C13_ShortRouteDroppedNotFailed ==
    CurrentSettled =>
        \A i \in DOMAIN Current.outcomes :
            LET o == Current.outcomes[i]
                vehicle == VehiclesOf(Current)[o.vIdx + 1]
            IN  (o.ok /\ Len(PointsOf(Current, o)) < 2) =>
                    /\ \A k \in DOMAIN polylines : polylines[k].id # PolylineId(vehicle, o.vIdx)
                    /\ \A e \in DOMAIN Current.routeErrors :
                          Current.routeErrors[e] # RouteError(vehicle, o.vIdx)
                    /\ error \in {<<>>, <<PartialMessage(Current.routeErrors)>>}
                    /\ (FailedOutcomes(Current) = <<>> => error = <<>>)

(* Two stations at the same coordinates: one point, no line, no warning.   *)
C13_Witness ==
    /\ CurrentSettled
    /\ \E i \in DOMAIN Current.outcomes :
          /\ Current.outcomes[i].ok
          /\ Len(Current.outcomes[i].ids) = 2
          /\ Len(PointsOf(Current, Current.outcomes[i])) = 1
    /\ FailedOutcomes(Current) = <<>>
    /\ error = <<>> /\ polylines = <<>>

(* The expanded path as coordinates, stated without the loop: the known    *)
(* identifiers in returned order, each replaced by its station's (lat,     *)
(* lon), then every run of equal neighbours reduced to its first element.  *)
Known(stationList, id) == \E i \in DOMAIN stationList : stationList[i].id = id

KnownIds(ids, stationList) == SelectSeq(ids, LAMBDA id : Known(stationList, id))

CoordsOf(ids, stationList) ==
    LET known == KnownIds(ids, stationList)
    IN  [n \in 1 .. Len(known) |->
            LET st == CHOOSE st \in {stationList[i] : i \in DOMAIN stationList} : st.id = known[n]
            IN  <<st.lat, st.lon>>]

Collapse(seq) ==
    LET keep == {i \in DOMAIN seq : i = 1 \/ seq[i] # seq[i - 1]}
    IN  [n \in 1 .. Cardinality(keep) |->
            seq[CHOOSE i \in keep : Cardinality({m \in keep : m <= i}) = n]]

IsSubsequence(sub, seq) ==
    \E f \in [DOMAIN sub -> DOMAIN seq] :
        /\ \A a, b \in DOMAIN sub : a < b => f[a] < f[b]
        /\ \A a \in DOMAIN sub : sub[a] = seq[f[a]]

(* C14: an expansion naming an identifier the directory does not know is   *)
(* no failure, and its line is built from the identifiers that are known.  *)
C14_UnknownIdSkipped ==
    CurrentSettled =>
        \A i \in DOMAIN Current.outcomes :
            LET o == Current.outcomes[i]
                vehicle == VehiclesOf(Current)[o.vIdx + 1]
                expected == Collapse(CoordsOf(o.ids, Current.stationList))
            IN  (o.ok /\ \E n \in DOMAIN o.ids : ~Known(Current.stationList, o.ids[n])) =>
                    /\ Len(expected) >= 2 =>
                          \E k \in DOMAIN polylines :
                              /\ polylines[k].id = PolylineId(vehicle, o.vIdx)
                              /\ polylines[k].points = expected
                    /\ \A e \in DOMAIN Current.routeErrors :
                          Current.routeErrors[e] # RouteError(vehicle, o.vIdx)

(* A path with an unknown identifier in the middle drawn with the three    *)
(* points of its known stations, and no warning.                           *)
C14_Witness ==
    /\ CurrentSettled /\ error = <<>>
    /\ \E i \in DOMAIN Current.outcomes :
          /\ Current.outcomes[i].ok
          /\ Len(KnownIds(Current.outcomes[i].ids, Current.stationList)) < Len(Current.outcomes[i].ids)
          /\ \E k \in DOMAIN polylines :
                polylines[k].points = CoordsOf(Current.outcomes[i].ids, Current.stationList)
                    /\ Len(polylines[k].points) = 3

(* C15: no polyline has two consecutive points with the same latitude and  *)
(* longitude.                                                              *)
C15_NoZeroLengthSegment ==
    \A k \in DOMAIN polylines :
        \A n \in 1 .. (Len(polylines[k].points) - 1) :
            polylines[k].points[n] # polylines[k].points[n + 1]

(* A drawn line has fewer points than its path has known stations: a       *)
(* duplicate was collapsed.                                                *)
C15_Witness ==
    /\ CurrentSettled
    /\ \E i \in DOMAIN Current.outcomes :
          LET o == Current.outcomes[i]
          IN  /\ Drawn(Current, o)
              /\ Len(PointsOf(Current, o)) < Len(CoordsOf(o.ids, Current.stationList))
              /\ \E k \in DOMAIN polylines : polylines[k].points = PointsOf(Current, o)

(* C16: the points of a polyline are the coordinates of its route's        *)
(* expanded path in returned order, less unknown identifiers and           *)
(* consecutive duplicates: a subsequence of the path, never reordered.     *)
C16_PointsFollowReturnedOrder ==
    CurrentSettled =>
        \A k \in DOMAIN polylines :
            \E i \in DOMAIN Current.outcomes :
                LET o == Current.outcomes[i]
                    path == CoordsOf(o.ids, Current.stationList)
                IN  /\ o.ok
                    /\ o.vIdx \in RoutesNamed(Current, polylines[k].id)
                    /\ IsSubsequence(polylines[k].points, path)
                    /\ polylines[k].points = Collapse(path)

(* Expansion 1, 3, 2 with all stations known: three points, in that order. *)
C16_Witness ==
    /\ CurrentSettled
    /\ \E i \in DOMAIN Current.outcomes :
          /\ Current.outcomes[i].ids = <<1, 3, 2>>
          /\ Current.stationList = DirA
    /\ \E k \in DOMAIN polylines :
          polylines[k].points = <<<<10, 10>>, <<20, 20>>, <<20, 10>>>>

(* C17: a cycle's first request is the one GET /stations it ever issues;   *)
(* every later request is a route expansion.                               *)
C17_DirectoryRequestedOnce ==
    \A c \in DOMAIN cycles :
        cycles[c].dir # "retired" =>
            /\ cycles[c].reqs # <<>>
            /\ cycles[c].reqs[1] = "GET /stations"
            /\ \A n \in 2 .. Len(cycles[c].reqs) : cycles[c].reqs[n] = "POST /graph/expand-route"

(* Two routes, one expanded and one failed, after a single directory       *)
(* request.                                                                *)
C17_Witness ==
    /\ CurrentSettled
    /\ Current.reqs = <<"GET /stations", "POST /graph/expand-route", "POST /graph/expand-route">>
    /\ FailedOutcomes(Current) # <<>> /\ polylines # <<>>

(* C18: a route without stops gets no expansion request, no polyline and   *)
(* no entry among the route errors.                                        *)
C18_RouteWithoutStopsIgnored ==
    (CurrentSettled /\ Current.dir = "ok") =>
        /\ Len(Current.reqs) =
              1 + Cardinality({j \in DOMAIN VehiclesOf(Current) : Len(VehiclesOf(Current)[j].stops) > 0})
        /\ \A j \in 0 .. (Len(VehiclesOf(Current)) - 1) :
              LET vehicle == VehiclesOf(Current)[j + 1]
              IN  Len(vehicle.stops) = 0 =>
                      /\ \A i \in DOMAIN Current.outcomes : Current.outcomes[i].vIdx # j
                      /\ \A k \in DOMAIN polylines : polylines[k].id # PolylineId(vehicle, j)
                      /\ \A e \in DOMAIN Current.routeErrors :
                            Current.routeErrors[e] # RouteError(vehicle, j)

(* Seven routes without stops and one with: one expansion request, one     *)
(* line.                                                                   *)
C18_Witness ==
    /\ CurrentSettled /\ Current.dir = "ok"
    /\ \E j \in DOMAIN VehiclesOf(Current) : Len(VehiclesOf(Current)[j].stops) = 0
    /\ Current.reqs = <<"GET /stations", "POST /graph/expand-route">>
    /\ Len(polylines) = 1 /\ error = <<>>

(* The positions (from 0), in input order, of the routes whose expansion   *)
(* failed.                                                                 *)
FailedPositions(cyc) ==
    SelectSeq([j \in 1 .. Len(VehiclesOf(cyc)) |-> j - 1],
              LAMBDA j : \E i \in DOMAIN cyc.outcomes : cyc.outcomes[i].vIdx = j /\ ~cyc.outcomes[i].ok)

(* C19: when a route failed, the warning is the route warning text         *)
(* followed by one label-qualified entry per failed route, in input order, *)
(* and by nothing else.                                                    *)
C19_WarningListsFailedRoutes ==
    (CurrentSettled /\ FailedOutcomes(Current) # <<>>) =>
        LET failed == FailedPositions(Current)
        IN  error = <<WarningText \o " ("
                        \o Join([n \in 1 .. Len(failed) |->
                                    RouteError(VehiclesOf(Current)[failed[n] + 1], failed[n])], ", ")
                        \o ")">>

(* Both routes failed: both labels, in input order. *)
C19_Witness ==
    /\ CurrentSettled
    /\ error = <<WarningText \o " (V1: Rota hesaplanamadi, V2: Rota hesaplanamadi)">>

StartsWith(str, prefix) == Len(str) >= Len(prefix) /\ SubSeq(str, 1, Len(prefix)) = prefix

(* C20: the warning of a failed directory fetch is a message of its own,   *)
(* not the text of the route expansion warning.                            *)
C20_DirectoryWarningIsDistinct ==
    (CurrentSettled /\ Current.dir = "failed") =>
        (error # <<>> /\ ~StartsWith(error[1], WarningText))

(* C21: the promise of no buildRoutes() call is ever rejected; a call that *)
(* has ended has a fulfilled promise, whatever failed in it.               *)
C21_BuildRoutesNeverRejects ==
    \A c \in DOMAIN cycles :
        /\ cycles[c].promise # "rejected"
        /\ cycles[c].pc = "done" <=> cycles[c].promise = "fulfilled"

(* A cancelled call and a call whose directory fetch failed have both      *)
(* returned; the failure shows as the warning.                             *)
C21_Witness ==
    /\ CurrentSettled /\ Current.dir = "failed" /\ Current.promise = "fulfilled"
    /\ error # <<>> /\ ~loading
    /\ \E c \in DOMAIN cycles : cycles[c].dir = "retired" /\ cycles[c].promise = "fulfilled"

(* How many expansion requests a cycle has issued for the route at         *)
(* position j: one per response received, and one if it is outstanding.    *)
RequestsForRoute(cyc, j) ==
    Cardinality({i \in DOMAIN cyc.outcomes : cyc.outcomes[i].vIdx = j})
        + (IF cyc.pc = "expandRoute" /\ cyc.vIdx = j THEN 1 ELSE 0)

(* C22: no cycle issues a second expansion request for a route or a second *)
(* directory request, and a cycle that has ended issues nothing.           *)
C22_NoRetry ==
    \A c \in DOMAIN cycles :
        cycles[c].dir # "retired" =>
            /\ \A j \in 0 .. (Len(VehiclesOf(cycles[c])) - 1) : RequestsForRoute(cycles[c], j) <= 1
            /\ Cardinality({n \in DOMAIN cycles[c].reqs : cycles[c].reqs[n] = "GET /stations"}) = 1
            /\ cycles[c].dir = "failed" => Len(cycles[c].reqs) = 1
            /\ (cycles[c].pc = "done" /\ lastStep.by = c) => lastStep.requests = <<>>

(* A cycle settled after both of its routes failed, with one request each. *)
C22_Witness ==
    /\ CurrentSettled
    /\ Len(FailedOutcomes(Current)) = 2
    /\ Len(Current.reqs) = 3

(* The terminal classes of a cycle, read off the render state it left. *)
Success(cyc) ==
    cyc.dir = "ok" /\ FailedOutcomes(cyc) = <<>> /\ error = <<>> /\ polylines = PolylinesAlone(cyc)

PartialFailure(cyc) ==
    /\ cyc.dir = "ok" /\ FailedOutcomes(cyc) # <<>>
    /\ error = WarningAlone(cyc) /\ polylines = PolylinesAlone(cyc)

FatalFailure(cyc) == cyc.dir = "failed" /\ error = <<FatalMessage>> /\ polylines = <<>>

SettledInOneClass(c) ==
    /\ c = abortRef /\ cycles[c].pc = "done" /\ ~cycles[c].aborted /\ ~loading
    /\ Cardinality({k \in {"Success", "PartialFailure", "FatalFailure"} :
            \/ k = "Success" /\ Success(cycles[c])
            \/ k = "PartialFailure" /\ PartialFailure(cycles[c])
            \/ k = "FatalFailure" /\ FatalFailure(cycles[c])}) = 1

(* A cycle that is neither superseded nor settled. *)
SomeLive == \E c \in DOMAIN cycles : Live(cycles[c])

(* C23: when every call eventually resolves or errors, a live cycle is     *)
(* eventually superseded or settled in exactly one of Success,             *)
(* PartialFailure and FatalFailure with loading false; and every trigger   *)
(* with a planning result leaves loading true, no polylines, no warning.   *)
C23_CycleSettlesAndRestartsAtLoading ==
    /\ SomeLive ~> ~SomeLive
    /\ [](\A c \in DOMAIN cycles :
            (cycles[c].pc = "done" /\ ~cycles[c].aborted) => SettledInOneClass(c))
    /\ [][(triggers' # triggers /\ planning' \in DOMAIN Plannings)
              => (loading' /\ polylines' = <<>> /\ error' = <<>>)]_vars

(* The second trigger's cycle went through Loading and settled in          *)
(* PartialFailure after the first cycle had ended.                         *)
C23_Witness ==
    /\ Len(cycles) = 2 /\ cycles[1].dir = "retired"
    /\ SettledInOneClass(2) /\ PartialFailure(cycles[2])
    /\ lastStep.by = 2

(* The stations the claim lets the fallback choose from. *)
ActiveWithCoordinates(sts) ==
    {i \in DOMAIN sts : sts[i].is_active /\ sts[i].lat # 0 /\ sts[i].lon # 0}

(* C24: with no polyline point to show, the computed bounds are the single *)
(* point of the first station in directory order that is active and has    *)
(* coordinates; an inactive station is not chosen.                         *)
C24_FallbackIsFirstActiveStation ==
    (AllPoints(polylines) = {} /\ ActiveWithCoordinates(stations) # {}) =>
        LET first == stations[Min(ActiveWithCoordinates(stations))]
        IN  Bounds(polylines, stations) = LatLngBounds({<<first.lat, first.lon>>})

Viewport(pls, sts) ==
    IF Bounds(pls, sts) # NoBounds THEN <<"fit", Bounds(pls, sts)>>
    ELSE <<"view", DEFAULT_CENTER, ZOOM>>

(* C26: after a cycle has settled the map shows the viewport computed from *)
(* the current polylines and stations, and after a clear no map of earlier *)
(* content is left.                                                        *)
C26_ViewportAppliedNeverStale ==
    /\ (CurrentSettled /\ planning \in DOMAIN Plannings) => mapView = Viewport(polylines, stations)
    /\ planning = NULL => mapView = NoMap

(* C27: every point of every polyline in state is the (lat, lon) of a      *)
(* station of the stations in state.                                       *)
C27_PolylinePointsAreCurrentStations ==
    \A k \in DOMAIN polylines : \A n \in DOMAIN polylines[k].points :
        \E i \in DOMAIN stations : <<stations[i].lat, stations[i].lon>> = polylines[k].points[n]

(* A cycle committed lines together with a station list other than the one *)
(* the previous cycle had left.                                            *)
C27_Witness ==
    /\ CurrentSettled /\ polylines # <<>>
    /\ Current.stationsAtStart # <<>> /\ Current.stationsAtStart # stations

(* C28: the effect run of a planning result leaves loading true, no        *)
(* warning, no polylines and the stations as they were, with only the      *)
(* directory request issued; stations change only when the current cycle   *)
(* commits after its directory fetch succeeded or when the input is null.  *)
C28_LoadingKeepsStations ==
    [][/\ (triggers' # triggers /\ planning' \in DOMAIN Plannings) =>
            /\ loading' /\ error' = <<>> /\ polylines' = <<>>
            /\ stations' = stations
            /\ lastStep'.requests = <<"GET /stations">>
       /\ stations' # stations =>
            \/ triggers' # triggers /\ planning' = NULL
            \/ /\ triggers' = triggers /\ lastStep'.by = abortRef
               /\ cycles'[abortRef].pc = "done" /\ ~cycles'[abortRef].aborted
               /\ cycles'[abortRef].dir = "ok"]_vars

(* Just after a trigger: loading, nothing drawn, the stations of the       *)
(* previous cycle still in state.                                          *)
C28_Witness ==
    /\ abortRef # NULL /\ Current.pc = "fetchStations" /\ lastStep.by = abortRef
    /\ loading /\ error = <<>> /\ polylines = <<>>
    /\ stations # <<>>

Posts(cyc) == Cardinality({n \in DOMAIN cyc.reqs : cyc.reqs[n] = "POST /graph/expand-route"})

(* C29: a cycle has at most one expansion request outstanding, issues none *)
(* before its directory fetch succeeded, and requests a route only when    *)
(* every attempted route before it has resolved or errored, in input       *)
(* order.                                                                  *)
C29_ExpansionsSequential ==
    \A c \in DOMAIN cycles :
        LET cyc == cycles[c]
        IN  cyc.dir # "retired" =>
                /\ Posts(cyc) - Len(cyc.outcomes) = IF cyc.pc = "expandRoute" THEN 1 ELSE 0
                /\ Posts(cyc) > 0 => cyc.dir = "ok"
                /\ \A i \in DOMAIN cyc.outcomes : AttemptedBefore(cyc, cyc.outcomes[i].vIdx) = i - 1
                /\ cyc.pc = "expandRoute" =>
                      /\ Len(VehiclesOf(cyc)[cyc.vIdx + 1].stops) > 0
                      /\ AttemptedBefore(cyc, cyc.vIdx) = Len(cyc.outcomes)

(* The second route's request is outstanding after the first one errored. *)
C29_Witness ==
    \E c \in DOMAIN cycles :
        /\ cycles[c].pc = "expandRoute" /\ cycles[c].vIdx = 1
        /\ Len(cycles[c].outcomes) = 1 /\ ~cycles[c].outcomes[1].ok

(* C30: a 2xx expansion body without expanded_station_ids is a successful  *)
(* expansion to the empty path: no points, no polyline, no entry among the *)
(* route errors, and no warning unless another route failed.               *)
C30_MissingIdsIsEmptyPath ==
    CurrentSettled =>
        \A i \in DOMAIN Current.outcomes :
            LET o == Current.outcomes[i]
                vehicle == VehiclesOf(Current)[o.vIdx + 1]
            IN  o.missing =>
                    /\ o.ok /\ o.ids = <<>> /\ PointsOf(Current, o) = <<>>
                    /\ \A k \in DOMAIN polylines : polylines[k].id # PolylineId(vehicle, o.vIdx)
                    /\ \A e \in DOMAIN Current.routeErrors :
                          Current.routeErrors[e] # RouteError(vehicle, o.vIdx)
                    /\ error = WarningAlone(Current)

(* The first route's body had no expanded_station_ids, the second route is *)
(* drawn, and there is no warning.                                         *)
C30_Witness ==
    /\ CurrentSettled
    /\ Len(Current.outcomes) = 2 /\ Current.outcomes[1].missing
    /\ Len(polylines) = 1 /\ polylines[1].id = "V2"
    /\ error = <<>>

====
